---- MODULE Spec2Model ----
(***************************************************************************)
(* Customer retention pipeline of src/app.py: the offer matcher and the    *)
(* email writer (two calls to a reasoning service), the SMTP dispatcher,   *)
(* the team notification, and the Streamlit session that drives them in    *)
(* single-record and CSV-batch mode.                                       *)
(*                                                                         *)
(* Python values are modelled as follows: a str is a TLA+ string; None     *)
(* read from the environment is the empty string (the code only tests      *)
(* "not value"); a dict is a function whose DOMAIN is its key set; a list  *)
(* is a sequence; st.session_state.processed_data is a sequence of length  *)
(* 0 (None) or 1; st.session_state.csv_results is a sequence of rows, the  *)
(* empty sequence standing for both None and [] (the code only tests its   *)
(* truthiness).                                                            *)
(***************************************************************************)
EXTENDS Naturals, Sequences, FiniteSets, TLC

(***************************************************************************)
(* String helpers: Python's "in", str.lower, str.strip, str.isdigit.      *)
(***************************************************************************)
Contains(s, sub) ==
    \E i \in 1..(Len(s) + 1) :
        /\ i + Len(sub) - 1 <= Len(s)
        /\ SubSeq(s, i, i + Len(sub) - 1) = sub

UpperLetters == "ABCDEFGHIJKLMNOPQRSTUVWXYZ"
LowerLetters == "abcdefghijklmnopqrstuvwxyz"

(* the lower-case letter of each upper-case letter *)
LowerOf ==
    LET Pair(i) == <<SubSeq(UpperLetters, i, i), SubSeq(LowerLetters, i, i)>>
        Pairs   == { Pair(i) : i \in 1..Len(UpperLetters) }
    IN  [c \in { p[1] : p \in Pairs } |-> (CHOOSE p \in Pairs : p[1] = c)[2]]

LowerChar(c) == IF c \in DOMAIN LowerOf THEN LowerOf[c] ELSE c

RECURSIVE Lower(_)
Lower(s) == IF s = "" THEN "" ELSE LowerChar(Head(s)) \o Lower(Tail(s))

IsSpace(c) == c \in {" ", "\n", "\t"}

RECURSIVE LStrip(_)
LStrip(s) == IF s # "" /\ IsSpace(Head(s)) THEN LStrip(Tail(s)) ELSE s

RECURSIVE RStrip(_)
RStrip(s) ==
    IF s # "" /\ IsSpace(SubSeq(s, Len(s), Len(s)))
    THEN RStrip(SubSeq(s, 1, Len(s) - 1))
    ELSE s

Strip(s) == RStrip(LStrip(s))

Digits == "0123456789"

IsDigit(c) == \E i \in 1..Len(Digits) : SubSeq(Digits, i, i) = c

DigitValue(c) == (CHOOSE i \in 1..Len(Digits) : SubSeq(Digits, i, i) = c) - 1

IsNumeric(s) == s # "" /\ \A i \in 1..Len(s) : IsDigit(SubSeq(s, i, i))

RECURSIVE ParseInt(_)
ParseInt(s) ==
    IF s = "" THEN 0
    ELSE 10 * ParseInt(SubSeq(s, 1, Len(s) - 1)) + DigitValue(SubSeq(s, Len(s), Len(s)))

(***************************************************************************)
(* dict.get(key, default)                                                  *)
(***************************************************************************)
Get(d, k, default) == IF k \in DOMAIN d THEN d[k] ELSE default

(***************************************************************************)
(* The offer catalog (code and name of each entry, in catalog order).      *)
(***************************************************************************)
RETENTION_OFFERS ==
    << [offer_code |-> "PRICE_DISC_20",    offer_name |-> "20% Discount for 6 Months"],
       [offer_code |-> "PRICE_DISC_30",    offer_name |-> "30% Discount for 3 Months"],
       [offer_code |-> "FEATURE_UPGRADE",  offer_name |-> "Free Feature Upgrade"],
       [offer_code |-> "TRIAL_EXTEND",     offer_name |-> "Extended Free Trial"],
       [offer_code |-> "SUPPORT_PRIORITY", offer_name |-> "Priority Support Access"],
       [offer_code |-> "CUSTOM_SOLUTION",  offer_name |-> "Custom Solution Consultation"] >>

CatalogCodes == { RETENTION_OFFERS[i].offer_code : i \in 1..Len(RETENTION_OFFERS) }

NO_MATCH == "NO_MATCH"

(***************************************************************************)
(* Agent 1.  reply is what client.chat.completions.create and json.loads   *)
(* produce: reply.raises means one of them raised an exception whose       *)
(* str() is reply.err (a service error, a timeout, content that is not     *)
(* JSON); otherwise reply.json is the parsed object, returned as it is.    *)
(***************************************************************************)
offer_matcher_agent_unprefixed(cancellation_reason, reply) ==
    IF reply.raises
    THEN [OFFER_CODE |-> NO_MATCH, OFFER_NAME |-> "None", MATCH_REASONING |-> reply.err]
    ELSE reply.json

offer_matcher_agent(cancellation_reason, reply) ==
    IF reply.raises
    THEN [OFFER_CODE      |-> NO_MATCH,
          OFFER_NAME      |-> "None",
          MATCH_REASONING |-> "Error occurred: " \o reply.err]
    ELSE reply.json

(***************************************************************************)
(* Agent 2.  reply.raises: the generation call (or .strip() on a missing   *)
(* content) raised; otherwise the stripped content is the draft.  The      *)
(* matched offer text only goes into the prompt.                           *)
(***************************************************************************)
email_writer_agent(matched_offer, cancellation_reason, customer_email, reply) ==
    IF reply.raises
    THEN "Error occurred while generating email: " \o reply.err
    ELSE Strip(reply.content)

ErrorMarker == "Error occurred while generating email: "

(***************************************************************************)
(* f"{match_result.get('OFFER_CODE')} - {match_result.get('OFFER_NAME')}"  *)
(***************************************************************************)
matched_offer_text(match_result) ==
    Get(match_result, "OFFER_CODE", "None") \o " - " \o Get(match_result, "OFFER_NAME", "None")

(***************************************************************************)
(* The mail transport.  env is the process environment read by os.getenv   *)
(* (an unset variable is ""); tr is what the SMTP session does once a      *)
(* server is resolved:                                                     *)
(*   "ok"      sendmail returns an empty error dict                        *)
(*   "partial" sendmail returns a non-empty dict of refused recipients     *)
(*   "auth"    login raises SMTPAuthenticationError                        *)
(*   "smtp"    some call raises another SMTPException                      *)
(*   "other"   some call raises another Exception (socket timeout, ...)    *)
(* The result records, beside the returned (success, message), the         *)
(* endpoint the function resolved and whether it opened a connection.      *)
(***************************************************************************)
TransportOutcomes == {"ok", "partial", "auth", "smtp", "other"}

DefaultPort == 587

TransportDetail(tr) ==
    CASE tr = "partial" -> "{'rcpt': (550, b'User unknown')}"
      [] tr = "auth"    -> "(535, b'Username and Password not accepted')"
      [] tr = "smtp"    -> "Connection unexpectedly closed"
      [] tr = "other"   -> "timed out"
      [] OTHER          -> ""

TransportErrorType(tr) == IF tr = "other" THEN "timeout" ELSE ""

NoSend(message) ==
    [success |-> FALSE, message |-> message, smtp_server |-> "", smtp_port |-> 0,
     attempted |-> FALSE]

(* the session, were the dict returned by sendmail not looked at *)
smtp_session_ignoring_refusals(to_email, smtp_server, smtp_port, tr) ==
    LET r(ok, msg) == [success |-> ok, message |-> msg, smtp_server |-> smtp_server,
                       smtp_port |-> smtp_port, attempted |-> TRUE]
    IN  CASE tr \in {"ok", "partial"} ->
               r(TRUE, "Email sent successfully to " \o to_email
                       \o "! Check your inbox (and spam folder).")
          [] tr = "auth" ->
               r(FALSE, "Authentication failed: " \o TransportDetail(tr)
                        \o ". Check your email and password. For Gmail, use an App Password."
                        \o " For custom domains, verify SMTP credentials.")
          [] tr = "smtp" ->
               r(FALSE, "SMTP error: " \o TransportDetail(tr)
                        \o ". Check SMTP_SERVER and SMTP_PORT settings.")
          [] OTHER ->
               r(FALSE, "Error sending email (" \o TransportErrorType(tr) \o "): "
                        \o TransportDetail(tr)
                        \o ". Verify your email configuration in .env file.")

(* lines 271-300: the session against the resolved endpoint *)
smtp_session(to_email, smtp_server, smtp_port, tr) ==
    LET r(ok, msg) == [success |-> ok, message |-> msg, smtp_server |-> smtp_server,
                       smtp_port |-> smtp_port, attempted |-> TRUE]
    IN  CASE tr = "ok" ->
               r(TRUE, "Email sent successfully to " \o to_email
                       \o "! Check your inbox (and spam folder).")
          [] tr = "partial" ->
               r(FALSE, "Email sending reported errors: " \o TransportDetail(tr))
          [] tr = "auth" ->
               r(FALSE, "Authentication failed: " \o TransportDetail(tr)
                        \o ". Check your email and password. For Gmail, use an App Password."
                        \o " For custom domains, verify SMTP credentials.")
          [] tr = "smtp" ->
               r(FALSE, "SMTP error: " \o TransportDetail(tr)
                        \o ". Check SMTP_SERVER and SMTP_PORT settings.")
          [] OTHER ->
               r(FALSE, "Error sending email (" \o TransportErrorType(tr) \o "): "
                        \o TransportDetail(tr)
                        \o ". Verify your email configuration in .env file.")

(* int(smtp_port) if smtp_port else 587, then the session; int() of a      *)
(* non-numeric string raises ValueError, caught by the last handler        *)
with_port(to_email, smtp_server, port_text, tr) ==
    IF port_text = ""
    THEN smtp_session(to_email, smtp_server, DefaultPort, tr)
    ELSE IF IsNumeric(port_text)
    THEN smtp_session(to_email, smtp_server, ParseInt(port_text), tr)
    ELSE NoSend("Error sending email (ValueError): invalid literal for int() with base 10: '"
                \o port_text \o "'. Verify your email configuration in .env file.")

send_email(to_email, subject, body, env, tr) ==
    LET sender_email    == env.SENDER_EMAIL
        sender_password == env.SENDER_PASSWORD
        smtp_server     == env.SMTP_SERVER
        smtp_port       == env.SMTP_PORT
        lowered         == Lower(sender_email)
    IN  IF sender_email = "" \/ sender_password = ""
        THEN NoSend("Email configuration missing. Please set SENDER_EMAIL and SENDER_PASSWORD in .env file")
        ELSE IF ~Contains(to_email, "@") \/ ~Contains(sender_email, "@")
        THEN NoSend("Invalid email format. To: " \o to_email \o ", From: " \o sender_email)
        ELSE IF smtp_server = ""
        THEN IF Contains(lowered, "gmail.com")
             THEN with_port(to_email, "smtp.gmail.com", smtp_port, tr)
             ELSE IF Contains(lowered, "outlook.com") \/ Contains(lowered, "hotmail.com")
             THEN with_port(to_email, "smtp-mail.outlook.com", smtp_port, tr)
             ELSE IF Contains(lowered, "yahoo.com")
             THEN with_port(to_email, "smtp.mail.yahoo.com", smtp_port, tr)
             ELSE NoSend("Custom email domain detected (" \o sender_email
                         \o "). Please set SMTP_SERVER and SMTP_PORT in .env file."
                         \o " For Gmail-hosted custom domains, use smtp.gmail.com:587")
        ELSE with_port(to_email, smtp_server, smtp_port, tr)

RetentionSubject == "We'd Love to Keep You - Special Retention Offer"
TeamSubject == "Manual Review Required - Customer Cancellation"

team_email_body(customer_id, customer_email, date_cancelled) ==
    "Customer's ID: " \o customer_id \o " Email: " \o customer_email
    \o " Date Cancelled: " \o date_cancelled

send_team_notification(customer_id, customer_email, date_cancelled, env, tr) ==
    LET team_email == env.SENDER_EMAIL
    IN  IF team_email = ""
        THEN NoSend("SENDER_EMAIL not set in .env file")
        ELSE send_email(team_email, TeamSubject,
                        team_email_body(customer_id, customer_email, date_cancelled),
                        env, tr)

(***************************************************************************)
(* Formatting of the generated customer id, f"CUST-{idx+1:03d}".           *)
(***************************************************************************)
DigitStr(d) == SubSeq(Digits, d + 1, d + 1)

RECURSIVE IntToStr(_)
IntToStr(n) == IF n < 10 THEN DigitStr(n) ELSE IntToStr(n \div 10) \o DigitStr(n % 10)

RECURSIVE ZeroPad(_, _)
ZeroPad(s, width) == IF Len(s) >= width THEN s ELSE ZeroPad("0" \o s, width)

IdWidth == 3

generated_customer_id(idx) == "CUST-" \o ZeroPad(IntToStr(idx + 1), IdWidth)

(***************************************************************************)
(* Inputs of the session: the environments a process may run in, the       *)
(* replies of the reasoning service, the form fields and the CSV files.    *)
(***************************************************************************)
MaxRows == 2

GoodEnv ==
    [SENDER_EMAIL |-> "team@gmail.com", SENDER_PASSWORD |-> "app-password",
     SMTP_SERVER |-> "", SMTP_PORT |-> "", OPENAI_API_KEY |-> "sk-test"]

SessionEnvs ==
    { GoodEnv,
      [GoodEnv EXCEPT !.SENDER_EMAIL = ""],
      [GoodEnv EXCEPT !.OPENAI_API_KEY = ""] }

SessionOutcomes == {"ok", "auth"}

Json(r) == [raises |-> FALSE, err |-> "", json |-> r]

MatchReplies ==
    { [raises |-> TRUE, err |-> "Request timed out.", json |-> <<>>],
      Json([OFFER_CODE |-> "PRICE_DISC_20", OFFER_NAME |-> "20% Discount for 6 Months",
            MATCH_REASONING |-> "The discount addresses the price concern."]),
      Json([OFFER_CODE |-> NO_MATCH, OFFER_NAME |-> "None",
            MATCH_REASONING |-> "No offer covers relocation."]),
      Json([MATCH_REASONING |-> "The reason is too vague."]) }

Text(c) == [raises |-> FALSE, err |-> "", content |-> c]

ComposeReplies ==
    { Text("Hey ann, we'd love to keep you.\nBest regards,\nThe Customer Team\n"),
      Text(" NO_MATCH\n"),
      [raises |-> TRUE, err |-> "Request timed out.", content |-> ""] }

FormIds == {"CUST-001"}
FormEmails == {"ann@example.com"}
FormReasons == {"", "too expensive for my budget"}
FormDates == {"2026-11-04"}
Today == "2026-11-04"

CsvRow(email, reason) == ("Email" :> email) @@ ("Cancellation Reason" :> reason)

CsvRows == << CsvRow("ann@example.com ", "too expensive"),
             CsvRow("bob.example.com", "moving abroad") >>

(* files of up to MaxRows rows in which the two rows alternate *)
CsvFiles ==
    { [i \in 1..n |-> CsvRows[((i + k) % 2) + 1]] : n \in 0..MaxRows, k \in 0..1 }

(***************************************************************************)
(* State: the process environment and the four session_state keys, and     *)
(* two records of what the script did: the frame the last Process All      *)
(* click read, and the calls the last handler made to the reasoning        *)
(* service and to the mail functions, in order.                            *)
(***************************************************************************)
VARIABLES
    env,                     \* os.environ / st.secrets of the process
    processed_data,          \* st.session_state.processed_data
    email_sent,              \* st.session_state.email_sent
    team_notification_sent,  \* st.session_state.team_notification_sent
    csv_results,             \* st.session_state.csv_results
    df,                      \* the frame read by the last Process All click
    calls,                   \* the agent and mail calls of the last handler
    probe                    \* a function called on its own: its arguments and its result

vars == <<env, processed_data, email_sent, team_notification_sent, csv_results, df, calls,
          probe>>

is_match_code_only(match_result, email_content) ==
    Get(match_result, "OFFER_CODE", NO_MATCH) # NO_MATCH

(* lines 420 and 595 *)
is_match_of(match_result, email_content) ==
    Get(match_result, "OFFER_CODE", NO_MATCH) # NO_MATCH /\ email_content # NO_MATCH

(* a mail call: the function, the place in main() it is made from, the     *)
(* batch row it is made for (0 in tab 1), its recipient, body and result   *)
Call(fn, origin, row, to_email, body, r) ==
    << [fn |-> fn, origin |-> origin, row |-> row, to_email |-> to_email,
        body |-> body, success |-> r.success] >>

(* the calls of a workflow run that mails the draft as soon as it is composed *)
AgentCalls_then_send(origin, row) ==
    << [fn |-> "offer_matcher_agent", origin |-> origin, row |-> row, to_email |-> "",
        body |-> "", success |-> TRUE],
       [fn |-> "email_writer_agent", origin |-> origin, row |-> row, to_email |-> "",
        body |-> "", success |-> TRUE],
       [fn |-> "send_email", origin |-> origin, row |-> row, to_email |-> "",
        body |-> "", success |-> TRUE] >>

(* the two agent calls of one workflow run; both agents return a value     *)
(* whatever the reasoning service does                                     *)
AgentCalls(origin, row) ==
    << [fn |-> "offer_matcher_agent", origin |-> origin, row |-> row, to_email |-> "",
        body |-> "", success |-> TRUE],
       [fn |-> "email_writer_agent", origin |-> origin, row |-> row, to_email |-> "",
        body |-> "", success |-> TRUE] >>

(***************************************************************************)
(* Lines 434-507 on a run without a click in tab 1: the result is shown,   *)
(* and a no-match result whose notification flag is unset is notified.     *)
(***************************************************************************)
(* the guard with the test of is_match inverted *)
needs_notification_on_match(pd, flag) == pd # <<>> /\ pd[1].is_match /\ ~flag

needs_notification(pd, flag) == pd # <<>> /\ ~pd[1].is_match /\ ~flag

tab1_notification(pd, tr) ==
    send_team_notification(pd[1].customer_id, pd[1].customer_email, pd[1].date_cancelled,
                           env, tr)

tab1_flag(pd, flag, tr) ==
    IF needs_notification(pd, flag) THEN tab1_notification(pd, tr).success ELSE flag

tab1_call(pd, flag, tr) ==
    IF needs_notification(pd, flag)
    THEN Call("send_team_notification", "tab1", 0, env.SENDER_EMAIL,
              team_email_body(pd[1].customer_id, pd[1].customer_email, pd[1].date_cancelled),
              tab1_notification(pd, tr))
    ELSE <<>>

(* the transport outcomes worth drawing for a run that renders tab 1 *)
RenderOutcomes(pd, flag) == IF needs_notification(pd, flag) THEN SessionOutcomes ELSE {"ok"}

Init ==
    /\ env \in SessionEnvs
    /\ processed_data = <<>>
    /\ email_sent = FALSE
    /\ team_notification_sent = FALSE
    /\ csv_results = <<>>
    /\ df = <<>>
    /\ calls = <<>>
    /\ probe = <<>>

(* Reset / Start New (lines 332-337), then the rerun, which finds nothing to show *)
Reset ==
    /\ processed_data' = <<>>
    /\ email_sent' = FALSE
    /\ team_notification_sent' = FALSE
    /\ csv_results' = <<>>
    /\ calls' = <<>>
    /\ UNCHANGED <<probe, env, df>>

(* lines 387-431: matcher, composer, is_match, the stored result *)
workflow_result(customer_id, customer_email, cancellation_reason, date_cancelled, mreply, creply) ==
    LET match_result  == offer_matcher_agent(cancellation_reason, mreply)
        email_content == email_writer_agent(matched_offer_text(match_result),
                                            cancellation_reason, customer_email, creply)
    IN  [customer_id         |-> customer_id,
         customer_email      |-> customer_email,
         cancellation_reason |-> cancellation_reason,
         date_cancelled      |-> date_cancelled,
         match_result        |-> match_result,
         email_content       |-> email_content,
         is_match            |-> is_match_of(match_result, email_content)]

(* lines 368-369: the flags a submission with a reason starts from *)
form_flags_stale ==
    [email_sent |-> email_sent, team_notification_sent |-> team_notification_sent]

form_flags == [email_sent |-> FALSE, team_notification_sent |-> FALSE]

(* Process Cancellation: lines 366-526 *)
Submit ==
    /\ \E customer_id \in FormIds, customer_email \in FormEmails,
          cancellation_reason \in FormReasons, date_cancelled \in FormDates :
         IF cancellation_reason # ""
         THEN IF env.OPENAI_API_KEY = ""
              THEN \* get_openai_client: st.stop() after the flags were reset
                   /\ email_sent' = form_flags.email_sent
                   /\ team_notification_sent' = form_flags.team_notification_sent
                   /\ calls' = <<>>
                   /\ UNCHANGED processed_data
              ELSE \E mreply \in MatchReplies, creply \in ComposeReplies :
                   LET pd == << workflow_result(customer_id, customer_email,
                                                cancellation_reason, date_cancelled,
                                                mreply, creply) >>
                       flag == form_flags.team_notification_sent
                   IN  \E tr \in RenderOutcomes(pd, flag) :
                         /\ processed_data' = pd
                         /\ email_sent' = form_flags.email_sent
                         /\ team_notification_sent' = tab1_flag(pd, flag, tr)
                         /\ calls' = AgentCalls("tab1", 0)
                                     \o tab1_call(pd, flag, tr)
         ELSE \E tr \in RenderOutcomes(processed_data, team_notification_sent) :
                /\ team_notification_sent' =
                       tab1_flag(processed_data, team_notification_sent, tr)
                /\ calls' = tab1_call(processed_data, team_notification_sent, tr)
                /\ UNCHANGED <<processed_data, email_sent>>
    /\ UNCHANGED <<probe, env, csv_results, df>>

(* Send Email: lines 461-479; on success st.rerun() shows the sent state *)
SendEmail ==
    /\ processed_data # <<>>
    /\ processed_data[1].is_match
    /\ ~email_sent
    /\ \E tr \in SessionOutcomes :
         LET r == send_email(processed_data[1].customer_email, RetentionSubject,
                             processed_data[1].email_content, env, tr)
         IN  /\ email_sent' = r.success
             /\ calls' = Call("send_email", "send_email_button", 0,
                              processed_data[1].customer_email,
                              processed_data[1].email_content, r)
    /\ UNCHANGED <<probe, env, processed_data, team_notification_sent, csv_results, df>>

(* Copy Email: lines 482-484 *)
CopyEmail ==
    /\ processed_data # <<>>
    /\ processed_data[1].is_match
    /\ calls' = <<>>
    /\ UNCHANGED <<probe, env, processed_data, email_sent, team_notification_sent, csv_results, df>>

(* Any other widget event (a file chosen or removed, the download button): *)
(* the script runs top to bottom and tab 1 is rendered again               *)
Rerender ==
    /\ \E tr \in RenderOutcomes(processed_data, team_notification_sent) :
         /\ team_notification_sent' = tab1_flag(processed_data, team_notification_sent, tr)
         /\ calls' = tab1_call(processed_data, team_notification_sent, tr)
    /\ UNCHANGED <<probe, env, processed_data, email_sent, csv_results, df>>

(***************************************************************************)
(* Batch tab.                                                              *)
(***************************************************************************)

(* lines 561-607: one iteration of the processing loop for the row at      *)
(* index label idx (0-based); the frame has no Customer ID or Date         *)
(* Cancelled column, so both are generated                                 *)
batch_row(idx, row, mreply, creply) ==
    LET customer_email      == Strip(row["Email"])
        cancellation_reason == Strip(row["Cancellation Reason"])
        match_result        == offer_matcher_agent(cancellation_reason, mreply)
        email_content       == email_writer_agent(matched_offer_text(match_result),
                                                  cancellation_reason, customer_email, creply)
        is_match            == is_match_of(match_result, email_content)
    IN  ("Customer ID"         :> generated_customer_id(idx)) @@
        ("Email"               :> customer_email) @@
        ("Date Cancelled"      :> Today) @@
        ("Cancellation Reason" :> cancellation_reason) @@
        ("Offer Code"          :> Get(match_result, "OFFER_CODE", NO_MATCH)) @@
        ("Offer Name"          :> Get(match_result, "OFFER_NAME", "None")) @@
        ("Match Found"         :> (IF is_match THEN "Yes" ELSE "No")) @@
        ("Email Content"       :> email_content) @@
        ("Email Sent"          :> FALSE)

(* the loop, were it to insert each row at the front of the list *)
RECURSIVE process_rows_prepending(_, _)
process_rows_prepending(frame, done) ==
    IF Len(done.rows) = Len(frame)
    THEN {done}
    ELSE LET idx == Len(done.rows)
         IN  UNION { process_rows_prepending(frame,
                         [rows  |-> <<batch_row(idx, frame[idx + 1], mreply, creply)>>
                                    \o done.rows,
                          calls |-> done.calls \o AgentCalls("process_all", idx + 1)]) :
                     mreply \in MatchReplies, creply \in ComposeReplies }

(* the loop, were a failure of the matcher's call to end it *)
RECURSIVE process_rows_aborting(_, _)
process_rows_aborting(frame, done) ==
    IF Len(done.rows) = Len(frame)
    THEN {done}
    ELSE LET idx == Len(done.rows)
         IN  UNION { IF mreply.raises
                     THEN { [rows  |-> done.rows,
                             calls |-> done.calls \o AgentCalls("process_all", idx + 1)] }
                     ELSE process_rows_aborting(frame,
                              [rows  |-> Append(done.rows,
                                                batch_row(idx, frame[idx + 1], mreply, creply)),
                               calls |-> done.calls
                                         \o AgentCalls("process_all", idx + 1)]) :
                     mreply \in MatchReplies, creply \in ComposeReplies }

(* lines 556-610: the loop over df.iterrows() from the row after those    *)
(* in done.rows on; the set of (result list, agent calls) it can end with  *)
RECURSIVE process_rows(_, _)
process_rows(frame, done) ==
    IF Len(done.rows) = Len(frame)
    THEN {done}
    ELSE LET idx == Len(done.rows)
         IN  UNION { process_rows(frame,
                         [rows  |-> Append(done.rows,
                                           batch_row(idx, frame[idx + 1], mreply, creply)),
                          calls |-> done.calls
                                    \o AgentCalls("process_all", idx + 1)]) :
                     mreply \in MatchReplies, creply \in ComposeReplies }

RECURSIVE unsent_matched_from(_, _)
unsent_matched_from(rows, i) ==
    IF i > Len(rows) THEN <<>>
    ELSE IF rows[i]["Match Found"] = "Yes" /\ ~rows[i]["Email Sent"]
    THEN <<i>> \o unsent_matched_from(rows, i + 1)
    ELSE unsent_matched_from(rows, i + 1)

RECURSIVE no_match_from(_, _)
no_match_from(rows, i) ==
    IF i > Len(rows) THEN <<>>
    ELSE IF rows[i]["Match Found"] = "No"
    THEN <<i>> \o no_match_from(rows, i + 1)
    ELSE no_match_from(rows, i + 1)

(* the list of line 640 without its test of Email Sent *)
matched_results_with_sent(rows) == no_match_from([i \in 1..Len(rows) |->
    [rows[i] EXCEPT !["Match Found"] = IF @ = "Yes" THEN "No" ELSE "Yes"]], 1)

(* line 640, as positions in csv_results (the list holds the same dicts) *)
matched_results(rows) == unsent_matched_from(rows, 1)

(* line 679 *)
no_match_results(rows) == no_match_from(rows, 1)

(* the send loop, were it to mark a row sent whatever send_email returns *)
RECURSIVE send_all_marking_failures(_, _, _, _, _)
send_all_marking_failures(rows, matched, trs, k, made) ==
    IF k > Len(matched)
    THEN [rows |-> rows, calls |-> made]
    ELSE LET i      == matched[k]
             result == rows[i]
             r      == send_email(result["Email"], RetentionSubject,
                                  result["Email Content"], env, trs[k])
         IN  send_all_marking_failures([rows EXCEPT ![i]["Email Sent"] = TRUE],
                      matched, trs, k + 1,
                      made \o Call("send_email", "send_all", i, result["Email"],
                                   result["Email Content"], r))

(* lines 654-668: the send loop from the k-th entry of matched_results on; *)
(* trs[k] is the transport's outcome for that entry                        *)
RECURSIVE send_all(_, _, _, _, _)
send_all(rows, matched, trs, k, made) ==
    IF k > Len(matched)
    THEN [rows |-> rows, calls |-> made]
    ELSE LET i      == matched[k]
             result == rows[i]
             r      == send_email(result["Email"], RetentionSubject,
                                  result["Email Content"], env, trs[k])
         IN  send_all(IF r.success THEN [rows EXCEPT ![i]["Email Sent"] = TRUE] ELSE rows,
                      matched, trs, k + 1,
                      made \o Call("send_email", "send_all", i, result["Email"],
                                   result["Email Content"], r))

(* lines 688-693: the notification loop; the returned pairs are dropped *)
RECURSIVE notify_all(_, _, _, _, _)
notify_all(rows, unmatched, trs, k, made) ==
    IF k > Len(unmatched)
    THEN made
    ELSE LET i      == unmatched[k]
             result == rows[i]
             r      == send_team_notification(result["Customer ID"], result["Email"],
                                              result["Date Cancelled"], env, trs[k])
         IN  notify_all(rows, unmatched, trs, k + 1,
                        made \o Call("send_team_notification", "notify_all", i,
                                     env.SENDER_EMAIL,
                                     team_email_body(result["Customer ID"], result["Email"],
                                                     result["Date Cancelled"]), r))

(* every uploaded frame with every result list the loop can build from it *)
BatchRuns ==
    UNION { { [frame |-> frame, results |-> run.rows, calls |-> run.calls] :
              run \in process_rows(frame, [rows |-> <<>>, calls |-> <<>>]) } :
            frame \in CsvFiles }

(* lines 699-701: the projection that is written to the CSV, row by row *)
ExportColumns ==
    {"Customer ID", "Email", "Date Cancelled", "Cancellation Reason",
     "Offer Code", "Offer Name", "Match Found", "Email Sent"}

csv_results_export(rows) ==
    [i \in 1..Len(rows) |-> [c \in ExportColumns |-> rows[i][c]]]

(* lines 622-633: the three summary metrics of the results frame *)
total_processed(rows) == Len(rows)

matches_unsent(rows) == Len(matched_results(rows))

matches(rows) == Cardinality({ i \in 1..Len(rows) : rows[i]["Match Found"] = "Yes" })

no_matches(rows) == Cardinality({ i \in 1..Len(rows) : rows[i]["Match Found"] = "No" })

(* Process All Cancellations on an uploaded file (lines 550-612): tab 1 is *)
(* rendered on the way, the loop runs, the results are stored, and the     *)
(* script reruns, rendering tab 1 once more                                *)
ProcessAll ==
    \E run \in BatchRuns, tr1 \in RenderOutcomes(processed_data, team_notification_sent) :
      LET flag1 == tab1_flag(processed_data, team_notification_sent, tr1)
          call1 == tab1_call(processed_data, team_notification_sent, tr1)
      IN  IF env.OPENAI_API_KEY = ""
          THEN \* get_openai_client: st.stop()
               /\ team_notification_sent' = flag1
               /\ calls' = call1
               /\ UNCHANGED <<probe, env, processed_data, email_sent, csv_results, df>>
          ELSE \E tr2 \in RenderOutcomes(processed_data, flag1) :
                 /\ csv_results' = run.results
                 /\ df' = run.frame
                 /\ team_notification_sent' = tab1_flag(processed_data, flag1, tr2)
                 /\ calls' = call1 \o run.calls \o tab1_call(processed_data, flag1, tr2)
                 /\ UNCHANGED <<probe, env, processed_data, email_sent>>

(* Send All Emails (lines 640-676), shown only while matched_results is    *)
(* not empty; the script reruns at the end                                 *)
SendAll ==
    /\ csv_results # <<>>
    /\ matched_results(csv_results) # <<>>
    /\ \E tr1 \in RenderOutcomes(processed_data, team_notification_sent),
          trs \in [1..Len(matched_results(csv_results)) -> SessionOutcomes] :
         LET flag1 == tab1_flag(processed_data, team_notification_sent, tr1)
             call1 == tab1_call(processed_data, team_notification_sent, tr1)
             sent  == send_all(csv_results, matched_results(csv_results), trs, 1, <<>>)
         IN  \E tr2 \in RenderOutcomes(processed_data, flag1) :
               /\ csv_results' = sent.rows
               /\ team_notification_sent' = tab1_flag(processed_data, flag1, tr2)
               /\ calls' = call1 \o sent.calls \o tab1_call(processed_data, flag1, tr2)
    /\ UNCHANGED <<probe, env, processed_data, email_sent, df>>

(* line 694: the number of notifications the success banner reports as sent *)
notifications_reported(unmatched) == Len(unmatched)

(* Send Team Notifications (lines 679-694); no rerun *)
NotifyAll ==
    /\ csv_results # <<>>
    /\ no_match_results(csv_results) # <<>>
    /\ \E tr1 \in RenderOutcomes(processed_data, team_notification_sent),
          trs \in [1..Len(no_match_results(csv_results)) -> SessionOutcomes] :
         /\ team_notification_sent' = tab1_flag(processed_data, team_notification_sent, tr1)
         /\ calls' = tab1_call(processed_data, team_notification_sent, tr1)
                     \o notify_all(csv_results, no_match_results(csv_results), trs, 1, <<>>)
    /\ UNCHANGED <<probe, env, processed_data, email_sent, csv_results, df>>

(***************************************************************************)
(* The session.  The operator holds results in one tab at a time: the     *)
(* two tabs share no state but the reset, and the state space of both at   *)
(* once is their product.                                                  *)
(***************************************************************************)
OneTab == processed_data = <<>> \/ csv_results = <<>>

Next ==
    \/ Reset /\ OneTab'
    \/ Submit /\ OneTab'
    \/ SendEmail /\ OneTab'
    \/ CopyEmail /\ OneTab'
    \/ Rerender /\ OneTab'
    \/ ProcessAll /\ OneTab'
    \/ SendAll /\ OneTab'
    \/ NotifyAll /\ OneTab'

Spec == Init /\ [][Next]_vars

(***************************************************************************)
(* The two agents called on their own, over every reply of the reasoning   *)
(* service.                                                                *)
(***************************************************************************)
AgentReasons == {"", "too expensive for my budget", "I'm relocating to a country you don't serve"}

AgentEmails == {"ann@example.com", "bob.example.com"}

AgentMatchReplies ==
    MatchReplies \cup
    { [raises |-> TRUE, err |-> "", json |-> <<>>],
      [raises |-> TRUE, err |-> "Expecting value: line 1 column 1 (char 0)", json |-> <<>>],
      Json([OFFER_CODE |-> "FREE_YEAR", OFFER_NAME |-> "One Year Free",
            MATCH_REASONING |-> "A free year keeps the customer."]),
      Json([OFFER_CODE |-> "SUPPORT_PRIORITY", OFFER_NAME |-> "Priority Support Access",
            MATCH_REASONING |-> "Faster answers address the support concern."]) }

AgentComposeReplies ==
    ComposeReplies \cup { Text("NO_MATCH"), [raises |-> TRUE, err |-> "", content |-> ""] }

(* the decisions the matcher can hand to the composer *)
Decisions ==
    { offer_matcher_agent(reason, reply) : reason \in AgentReasons, reply \in AgentMatchReplies }

MatchProbe ==
    /\ \E reason \in AgentReasons, reply \in AgentMatchReplies :
         probe' = << [fn     |-> "offer_matcher_agent",
                      reason |-> reason,
                      reply  |-> reply,
                      result |-> offer_matcher_agent(reason, reply)] >>
    /\ UNCHANGED <<env, processed_data, email_sent, team_notification_sent, csv_results,
                   df, calls>>

ComposeProbe ==
    /\ \E decision \in Decisions, reason \in AgentReasons, customer_email \in AgentEmails,
          reply \in AgentComposeReplies :
         probe' = << [fn       |-> "email_writer_agent",
                      decision |-> decision,
                      reason   |-> reason,
                      email    |-> customer_email,
                      reply    |-> reply,
                      result   |-> email_writer_agent(matched_offer_text(decision), reason,
                                                      customer_email, reply)] >>
    /\ UNCHANGED <<env, processed_data, email_sent, team_notification_sent, csv_results,
                   df, calls>>

AgentNext == MatchProbe \/ ComposeProbe

AgentSpec == Init /\ [][AgentNext]_vars

(***************************************************************************)
(* send_email called on its own, over configurations of the environment,   *)
(* recipients and outcomes of the SMTP session.                            *)
(***************************************************************************)
MailSenders ==
    {"", "team@gmail.com", "Ops@Outlook.com", "a@hotmail.com", "a@yahoo.com",
     "ops@corp.io", "ops@notgmail.com", "gmail.com"}

MailEnvs ==
    { [SENDER_EMAIL |-> s, SENDER_PASSWORD |-> p, SMTP_SERVER |-> h, SMTP_PORT |-> q,
       OPENAI_API_KEY |-> "sk-test"] :
      s \in MailSenders, p \in {"", "app-password"}, h \in {"", "mail.corp.io"},
      q \in {"", "465", "abc"} }

MailRecipients == {"ann@example.com", "bob.example.com"}

MailProbe ==
    /\ \E e \in MailEnvs, to_email \in MailRecipients, tr \in TransportOutcomes :
         probe' = << [fn       |-> "send_email",
                      env      |-> e,
                      to_email |-> to_email,
                      tr       |-> tr,
                      result   |-> send_email(to_email, RetentionSubject, "Dear customer", e, tr)] >>
    /\ UNCHANGED <<env, processed_data, email_sent, team_notification_sent, csv_results, df,
                   calls>>

MailNext == MailProbe

MailSpec == Init /\ [][MailNext]_vars

(***************************************************************************)
(* Properties.                                                             *)
(***************************************************************************)
CallIdx(cs) == 1..Len(cs)

WorkflowRan(cs, origin) ==
    \E k \in CallIdx(cs) : cs[k].fn = "offer_matcher_agent" /\ cs[k].origin = origin

StartsWith(s, prefix) == Len(s) >= Len(prefix) /\ SubSeq(s, 1, Len(prefix)) = prefix

(* C1: Send All Emails passes to send_email only rows that are matched and *)
(* not yet marked sent, each at most once per invocation: a row whose      *)
(* Email Sent is true is never sent again, and with no unsent matched row  *)
(* no send is made.                                                        *)
C1_SentRowsNeverResent ==
    [][ \A k \in CallIdx(calls') :
          calls'[k].origin = "send_all" =>
            /\ csv_results[calls'[k].row]["Match Found"] = "Yes"
            /\ ~csv_results[calls'[k].row]["Email Sent"]
            /\ \A j \in CallIdx(calls') :
                 (calls'[j].origin = "send_all" /\ calls'[j].row = calls'[k].row) => j = k
      ]_vars

(* a second Send All that skipped a row sent by an earlier one *)
C1_Witness ==
    /\ \E k \in CallIdx(calls) : calls[k].origin = "send_all"
    /\ \E i \in 1..Len(csv_results) :
         /\ csv_results[i]["Email Sent"]
         /\ \A k \in CallIdx(calls) : calls[k].origin = "send_all" => calls[k].row # i

C2_Inv ==
    /\ email_sent => (processed_data # <<>> /\ processed_data[1].is_match)
    /\ \A i \in 1..Len(csv_results) :
         csv_results[i]["Email Sent"] => csv_results[i]["Match Found"] = "Yes"

C2_Step ==
    /\ (email_sent' /\ ~(email_sent /\ processed_data' = processed_data)) =>
         \E k \in CallIdx(calls') :
           /\ calls'[k].fn = "send_email"
           /\ calls'[k].origin = "send_email_button"
           /\ calls'[k].to_email = processed_data'[1].customer_email
           /\ calls'[k].success
    /\ \A i \in 1..Len(csv_results') :
         (csv_results'[i]["Email Sent"]
            /\ ~(i <= Len(csv_results) /\ csv_results[i] = csv_results'[i])) =>
           \E k \in CallIdx(calls') :
             /\ calls'[k].fn = "send_email"
             /\ calls'[k].origin = "send_all"
             /\ calls'[k].row = i
             /\ calls'[k].to_email = csv_results'[i]["Email"]
             /\ calls'[k].success
    /\ \A k \in CallIdx(calls') :
         (calls'[k].fn = "send_email" /\ ~calls'[k].success) =>
           IF calls'[k].origin = "send_all"
           THEN /\ ~csv_results'[calls'[k].row]["Email Sent"]
                /\ \E q \in 1..Len(matched_results(csv_results')) :
                     matched_results(csv_results')[q] = calls'[k].row
           ELSE ~email_sent'

(* C2: email_sent is true only for a matched record, and it becomes true   *)
(* only in a step whose send_email call addressed to that record returned  *)
(* success; a failed send leaves the record unsent, and a batch row still  *)
(* in the list the next Send All iterates.                                 *)
C2_SentOnlyAfterSuccess == []C2_Inv /\ [][C2_Step]_vars

(* a Send All in which one row was accepted and another failed *)
C2_Witness ==
    /\ \E k \in CallIdx(calls) :
         /\ calls[k].origin = "send_all"
         /\ ~calls[k].success
         /\ ~csv_results[calls[k].row]["Email Sent"]
    /\ \E k \in CallIdx(calls) :
         /\ calls[k].origin = "send_all"
         /\ calls[k].success
         /\ csv_results[calls[k].row]["Email Sent"]

(* C3: once a single-record run has ended without a match, a later run of  *)
(* the script that keeps the result and does not run the workflow again    *)
(* makes no call to send_team_notification from tab 1.                     *)
C3_NotifiedOnce ==
    [][ ( /\ processed_data # <<>>
          /\ ~processed_data[1].is_match
          /\ processed_data' = processed_data
          /\ ~WorkflowRan(calls', "tab1") ) =>
        \A k \in CallIdx(calls') :
          ~(calls'[k].fn = "send_team_notification" /\ calls'[k].origin = "tab1")
      ]_vars

(* C4, as claimed: after a run of the workflow both flags of the new       *)
(* result are false.                                                       *)
C4_FlagsFalseAfterRerun ==
    [][ /\ WorkflowRan(calls', "tab1") => (~email_sent' /\ ~team_notification_sent')
        /\ WorkflowRan(calls', "process_all") =>
             \A i \in 1..Len(csv_results') : ~csv_results'[i]["Email Sent"]
      ]_vars

(* C4, amended: a run of the workflow discards the earlier flags: after it *)
(* email_sent is false (every Email Sent of a batch is false), and         *)
(* team_notification_sent is true only if the new result is a no-match     *)
(* whose notification was sent with success in that same run, after the    *)
(* agents were called.                                                     *)
C4_FlagsResetOnRerun ==
    [][ /\ WorkflowRan(calls', "tab1") =>
             /\ processed_data' # <<>>
             /\ ~email_sent'
             /\ team_notification_sent' =>
                  /\ ~processed_data'[1].is_match
                  /\ \E k \in CallIdx(calls') :
                       /\ calls'[k].fn = "send_team_notification"
                       /\ calls'[k].origin = "tab1"
                       /\ calls'[k].success
                       /\ \E j \in 1..(k - 1) : calls'[j].fn = "email_writer_agent"
        /\ WorkflowRan(calls', "process_all") =>
             \A i \in 1..Len(csv_results') : ~csv_results'[i]["Email Sent"]
      ]_vars

(* a run of the workflow that ended without a match and notified the team *)
C4_Witness ==
    /\ WorkflowRan(calls, "tab1")
    /\ ~processed_data[1].is_match
    /\ team_notification_sent
    /\ ~email_sent

(* C5: the decision the matcher returns carries an offer code that is      *)
(* NO_MATCH or the code of a catalog entry (a decision without a code      *)
(* reads as NO_MATCH, as its callers read it).                             *)
C5_CodeFromCatalog ==
    \A n \in 1..Len(probe) :
      probe[n].fn = "offer_matcher_agent" =>
        Get(probe[n].result, "OFFER_CODE", NO_MATCH) \in CatalogCodes \cup {NO_MATCH}

(* C6: when the call to the reasoning service or the parse of its answer   *)
(* raises, the matcher returns a decision with the three keys, the code    *)
(* NO_MATCH and a reasoning string that is not empty.                      *)
C6_FailureDegradesToNoMatch ==
    \A n \in 1..Len(probe) :
      (probe[n].fn = "offer_matcher_agent" /\ probe[n].reply.raises) =>
        /\ DOMAIN probe[n].result = {"OFFER_CODE", "OFFER_NAME", "MATCH_REASONING"}
        /\ probe[n].result["OFFER_CODE"] = NO_MATCH
        /\ Len(probe[n].result["MATCH_REASONING"]) > 0

(* the matcher called while the service raises an exception with no text *)
C6_Witness ==
    /\ probe # <<>>
    /\ probe[1].fn = "offer_matcher_agent"
    /\ probe[1].reply.raises
    /\ probe[1].reply.err = ""
    /\ probe[1].result["OFFER_CODE"] = NO_MATCH

(* C7: for a decision whose code is NO_MATCH the composer returns the      *)
(* literal NO_MATCH, whatever the generation call does.                    *)
C7_NoMatchGivesSentinel ==
    \A n \in 1..Len(probe) :
      ( /\ probe[n].fn = "email_writer_agent"
        /\ Get(probe[n].decision, "OFFER_CODE", NO_MATCH) = NO_MATCH ) =>
        probe[n].result = NO_MATCH

(* C8: a stored result is a match exactly when its offer code (NO_MATCH    *)
(* when the decision has none) is not NO_MATCH and its draft is not the    *)
(* literal NO_MATCH; a batch row stores Yes for a match and No otherwise.  *)
C8_IsMatchDefinition ==
    /\ processed_data # <<>> =>
         ( processed_data[1].is_match <=>
             ( /\ Get(processed_data[1].match_result, "OFFER_CODE", NO_MATCH) # NO_MATCH
               /\ processed_data[1].email_content # NO_MATCH ) )
    /\ \A i \in 1..Len(csv_results) :
         /\ csv_results[i]["Match Found"] \in {"Yes", "No"}
         /\ csv_results[i]["Match Found"] = "Yes" <=>
              ( /\ csv_results[i]["Offer Code"] # NO_MATCH
                /\ csv_results[i]["Email Content"] # NO_MATCH )

(* a batch holding a row with a real offer code whose draft is NO_MATCH,   *)
(* and a row that is a match                                               *)
C8_Witness ==
    /\ \E i \in 1..Len(csv_results) :
         /\ csv_results[i]["Offer Code"] # NO_MATCH
         /\ csv_results[i]["Email Content"] = NO_MATCH
         /\ csv_results[i]["Match Found"] = "No"
    /\ \E i \in 1..Len(csv_results) : csv_results[i]["Match Found"] = "Yes"

(* C9: the stored results and the exported rows are, position by position, *)
(* the rows of the processed frame: as many as the frame has, the i-th     *)
(* with the i-th row's email, reason and generated id, whatever Send All   *)
(* and Send Team Notifications did since.                                  *)
C9_InputOrderPreserved ==
    csv_results # <<>> =>
      LET export == csv_results_export(csv_results)
      IN  /\ Len(csv_results) = Len(df)
          /\ Len(export) = Len(df)
          /\ \A i \in 1..Len(df) :
               /\ csv_results[i]["Email"] = Strip(df[i]["Email"])
               /\ csv_results[i]["Cancellation Reason"] = Strip(df[i]["Cancellation Reason"])
               /\ csv_results[i]["Customer ID"] = generated_customer_id(i - 1)
               /\ export[i]["Email"] = Strip(df[i]["Email"])
               /\ export[i]["Cancellation Reason"] = Strip(df[i]["Cancellation Reason"])
               /\ export[i]["Customer ID"] = generated_customer_id(i - 1)
               /\ export[i]["Email Sent"] = csv_results[i]["Email Sent"]

(* two different records, in order, after a Send All that sent one of them *)
C9_Witness ==
    /\ Len(csv_results) = MaxRows
    /\ csv_results[1]["Email"] # csv_results[2]["Email"]
    /\ \E k \in CallIdx(calls) : calls[k].origin = "send_all"
    /\ \E i \in 1..Len(csv_results) : csv_results[i]["Email Sent"]

(* C10: a Process All stores one result per row of the frame, each row     *)
(* having gone once through the matcher and once through the composer,     *)
(* whichever of the calls failed.                                          *)
C10_EveryRecordYieldsAResult ==
    WorkflowRan(calls, "process_all") =>
      /\ Len(csv_results) = Len(df)
      /\ \A i \in 1..Len(df) :
           /\ Cardinality({ k \in CallIdx(calls) :
                              calls[k].fn = "offer_matcher_agent" /\ calls[k].row = i }) = 1
           /\ Cardinality({ k \in CallIdx(calls) :
                              calls[k].fn = "email_writer_agent" /\ calls[k].row = i }) = 1

(* a batch whose first record failed in both agents and whose last record  *)
(* was matched                                                             *)
C10_Witness ==
    /\ WorkflowRan(calls, "process_all")
    /\ Len(csv_results) = MaxRows
    /\ csv_results[1]["Offer Code"] = NO_MATCH
    /\ StartsWith(csv_results[1]["Email Content"], ErrorMarker)
    /\ csv_results[Len(csv_results)]["Match Found"] = "Yes"

C11_Inv ==
    csv_results # <<>> =>
      /\ total_processed(csv_results) = Len(df)
      /\ matches(csv_results) =
           Cardinality({ i \in 1..Len(csv_results) :
             is_match_of([OFFER_CODE |-> csv_results[i]["Offer Code"]],
                         csv_results[i]["Email Content"]) })
      /\ no_matches(csv_results) =
           Cardinality({ i \in 1..Len(csv_results) :
             ~is_match_of([OFFER_CODE |-> csv_results[i]["Offer Code"]],
                          csv_results[i]["Email Content"]) })
      /\ matches(csv_results) + no_matches(csv_results) = total_processed(csv_results)

C11_Step ==
    (\E k \in CallIdx(calls') : calls'[k].origin \in {"send_all", "notify_all"}) =>
      /\ total_processed(csv_results') = total_processed(csv_results)
      /\ matches(csv_results') = matches(csv_results)
      /\ no_matches(csv_results') = no_matches(csv_results)

(* C11: the metrics shown for a batch are: total, the number of rows of    *)
(* the frame; matches, the number of rows that are a match; no match, the  *)
(* number of rows that are not; matches and no match add up to total; and  *)
(* Send All Emails and Send Team Notifications leave the three unchanged.  *)
C11_CountsAddUpAndStay == []C11_Inv /\ [][C11_Step]_vars

(* a batch of one match and one no-match after a Send All that sent the    *)
(* matched row                                                             *)
C11_Witness ==
    /\ \E k \in CallIdx(calls) : calls[k].origin = "send_all" /\ calls[k].success
    /\ total_processed(csv_results) = MaxRows
    /\ matches(csv_results) = 1
    /\ no_matches(csv_results) = MaxRows - 1

(* the part of an address after its last "@" ("" when it has none) *)
RECURSIVE DomainOf(_)
DomainOf(address) ==
    IF ~Contains(address, "@") THEN ""
    ELSE IF Contains(Tail(address), "@") THEN DomainOf(Tail(address))
    ELSE Tail(address)

(* the providers send_email knows, each with the server it stands for *)
ProviderServer ==
    [d \in {"gmail.com", "outlook.com", "hotmail.com", "yahoo.com"} |->
       CASE d = "gmail.com" -> "smtp.gmail.com"
         [] d = "yahoo.com" -> "smtp.mail.yahoo.com"
         [] OTHER           -> "smtp-mail.outlook.com"]

(* send_email got as far as resolving the endpoint *)
ReachedResolution(p) ==
    /\ p.env.SENDER_EMAIL # "" /\ p.env.SENDER_PASSWORD # ""
    /\ Contains(p.to_email, "@") /\ Contains(p.env.SENDER_EMAIL, "@")

(* C12: once the configuration and the addresses are accepted, send_email  *)
(* connects to the explicit SMTP_SERVER when there is one; otherwise to    *)
(* the server of the provider that is the domain part of the sender        *)
(* address; and with no explicit server and a domain that is no known      *)
(* provider it fails without opening a connection, so that no such sender  *)
(* is mapped to a provider's server.                                       *)
C12_EndpointResolution ==
    \A n \in 1..Len(probe) :
      (probe[n].fn = "send_email" /\ ReachedResolution(probe[n])) =>
        LET e      == probe[n].env
            r      == probe[n].result
            domain == Lower(DomainOf(e.SENDER_EMAIL))
        IN  IF e.SMTP_SERVER # ""
            THEN r.attempted => r.smtp_server = e.SMTP_SERVER
            ELSE IF domain \in DOMAIN ProviderServer
            THEN r.attempted => r.smtp_server = ProviderServer[domain]
            ELSE ~r.success /\ ~r.attempted

(* the kind of failure a returned message tells *)
MessageKind(message) ==
    CASE StartsWith(message, "Email configuration missing") -> "configuration"
      [] StartsWith(message, "Authentication failed: ")     -> "authentication"
      [] StartsWith(message, "SMTP error: ")                -> "transport"
      [] StartsWith(message, "Error sending email (")       -> "transport"
      [] StartsWith(message, "Email sending reported errors: ") -> "refused"
      [] StartsWith(message, "Invalid email format.")       -> "address"
      [] StartsWith(message, "Custom email domain detected") -> "unresolved"
      [] StartsWith(message, "Email sent successfully to ") -> "sent"
      [] OTHER -> "unknown"

(* C13: send_email returns a pair for every configuration and outcome of   *)
(* the session; it returns success only when a session was opened and      *)
(* sendmail refused no recipient; missing credentials, an address without  *)
(* "@", an unresolved server, a failed login, another SMTP or socket       *)
(* failure and a refused recipient each return failure, with a message     *)
(* whose kind tells configuration, authentication and transport failures   *)
(* apart.                                                                  *)
C13_FailuresReturnedAndTold ==
    \A n \in 1..Len(probe) :
      probe[n].fn = "send_email" =>
        LET e  == probe[n].env
            r  == probe[n].result
            tr == probe[n].tr
            kind == MessageKind(r.message)
        IN  /\ r.success \in BOOLEAN
            /\ r.success <=> (r.attempted /\ tr = "ok")
            /\ r.success <=> kind = "sent"
            /\ (e.SENDER_EMAIL = "" \/ e.SENDER_PASSWORD = "") =>
                 (~r.attempted /\ kind = "configuration")
            /\ kind = "configuration" => (e.SENDER_EMAIL = "" \/ e.SENDER_PASSWORD = "")
            /\ (~Contains(probe[n].to_email, "@") /\ kind # "configuration") =>
                 (~r.attempted /\ kind = "address")
            /\ (r.attempted /\ tr = "auth") <=> kind = "authentication"
            /\ (r.attempted /\ tr \in {"smtp", "other"}) => kind = "transport"
            /\ (r.attempted /\ tr = "partial") <=> kind = "refused"
            /\ kind = "transport" =>
                 \/ r.attempted /\ tr \in {"smtp", "other"}
                 \/ ~r.attempted /\ ~IsNumeric(e.SMTP_PORT)
            /\ kind # "unknown"

(* a session in which sendmail refused the recipient: failure is returned *)
C13_Witness ==
    /\ probe # <<>>
    /\ probe[1].fn = "send_email"
    /\ probe[1].tr = "partial"
    /\ probe[1].result.attempted
    /\ ~probe[1].result.success

(* C14: a script run that runs the workflow, for the form or for a batch,  *)
(* makes no send_email call for a customer; such a call is made only by    *)
(* the Send Email button, for the stored result and to its address, or by  *)
(* Send All Emails, for a stored row and to its address.                   *)
C14_NoSendWhileComposing ==
    [][ \A k \in CallIdx(calls') :
          calls'[k].fn = "send_email" =>
            /\ ~WorkflowRan(calls', "tab1")
            /\ ~WorkflowRan(calls', "process_all")
            /\ calls'[k].origin \in {"send_email_button", "send_all"}
            /\ calls'[k].origin = "send_email_button" =>
                 /\ processed_data # <<>>
                 /\ processed_data' = processed_data
                 /\ calls'[k].to_email = processed_data[1].customer_email
                 /\ calls'[k].body = processed_data[1].email_content
            /\ calls'[k].origin = "send_all" =>
                 /\ calls'[k].row \in 1..Len(csv_results)
                 /\ calls'[k].to_email = csv_results[calls'[k].row]["Email"]
                 /\ calls'[k].body = csv_results[calls'[k].row]["Email Content"]
      ]_vars

(* the Send Email button has mailed the draft of the stored result *)
C14_Witness ==
    /\ processed_data # <<>>
    /\ email_sent
    /\ \E k \in CallIdx(calls) :
         /\ calls[k].origin = "send_email_button"
         /\ calls[k].to_email = processed_data[1].customer_email
         /\ calls[k].success

NotifiedInRun(cs, origin, row) ==
    { k \in CallIdx(cs) : /\ cs[k].fn = "send_team_notification"
                          /\ cs[k].origin = origin
                          /\ cs[k].row = row }

(* C15, as claimed: a run of the workflow that ends without a match calls  *)
(* send_team_notification for the record in that same run, for the form    *)
(* and for every unmatched row of a batch.                                 *)
C15_NoMatchNotifiedByRun ==
    [][ /\ (WorkflowRan(calls', "tab1") /\ ~processed_data'[1].is_match) =>
             NotifiedInRun(calls', "tab1", 0) # {}
        /\ WorkflowRan(calls', "process_all") =>
             \A i \in 1..Len(csv_results') :
               csv_results'[i]["Match Found"] = "No" =>
                 \E k \in CallIdx(calls') :
                   calls'[k].fn = "send_team_notification" /\ calls'[k].row = i
      ]_vars

(* C15, amended: a form run that ends without a match calls                *)
(* send_team_notification once in that same run, after the two agents,     *)
(* and the flag records whether it succeeded; a batch run calls it for no  *)
(* row; Send Team Notifications calls it once for each unmatched row and   *)
(* for no other row.                                                       *)
C15_NotifiedByRunOrByButton ==
    [][ /\ (WorkflowRan(calls', "tab1") /\ ~processed_data'[1].is_match) =>
             /\ Cardinality(NotifiedInRun(calls', "tab1", 0)) = 1
             /\ \A k \in NotifiedInRun(calls', "tab1", 0) :
                  /\ k = Len(calls')
                  /\ calls'[k - 1].fn = "email_writer_agent"
                  /\ team_notification_sent' = calls'[k].success
        /\ WorkflowRan(calls', "process_all") =>
             \A k \in CallIdx(calls') :
               calls'[k].fn = "send_team_notification" => calls'[k].origin = "tab1"
        /\ (\E k \in CallIdx(calls') : calls'[k].origin = "notify_all") =>
             /\ csv_results' = csv_results
             /\ \A i \in 1..Len(csv_results) :
                  Cardinality(NotifiedInRun(calls', "notify_all", i)) =
                    (IF csv_results[i]["Match Found"] = "No" THEN 1 ELSE 0)
      ]_vars

(* Send Team Notifications clicked on a batch of a matched and an          *)
(* unmatched row                                                           *)
C15_Witness ==
    /\ \E i \in 1..Len(csv_results) :
         /\ csv_results[i]["Match Found"] = "No"
         /\ NotifiedInRun(calls, "notify_all", i) # {}
    /\ \E i \in 1..Len(csv_results) :
         /\ csv_results[i]["Match Found"] = "Yes"
         /\ NotifiedInRun(calls, "notify_all", i) = {}

(* C16: a notification whose send_team_notification call returned failure  *)
(* is not reported as sent: in tab 1 the flag stays unset after a failed   *)
(* call, and the number Send Team Notifications reports as sent is the     *)
(* number of its calls that returned success.                              *)
C16_FailedNotificationNotReported ==
    [][ /\ \A k \in CallIdx(calls') :
             ( /\ calls'[k].fn = "send_team_notification"
               /\ calls'[k].origin = "tab1"
               /\ k = Len(calls')
               /\ ~calls'[k].success ) => ~team_notification_sent'
        /\ (\E k \in CallIdx(calls') : calls'[k].origin = "notify_all") =>
             notifications_reported(no_match_results(csv_results)) =
               Cardinality({ k \in CallIdx(calls') :
                               calls'[k].origin = "notify_all" /\ calls'[k].success })
      ]_vars

(* C17: no send_email call made by Send Email or Send All Emails carries   *)
(* as its body a draft that is the error string email_writer_agent         *)
(* returns when the generation call failed.                                *)
C17_ErrorDraftNeverSent ==
    [][ \A k \in CallIdx(calls') :
          ( /\ calls'[k].fn = "send_email"
            /\ calls'[k].origin \in {"send_email_button", "send_all"} ) =>
            ~StartsWith(calls'[k].body, ErrorMarker)
      ]_vars

====
